---- MODULE Spec2Model ----
(***************************************************************************)
(* Model of src/app.py: the ISO-week date helper (iso_last_week,          *)
(* get_week_dates), the per-user weekly upsert into work_selections, and  *)
(* the index / save / download request handlers.                           *)
(*                                                                         *)
(* A datetime.date is the record [year, month, day]; date arithmetic goes  *)
(* through the proleptic Gregorian ordinal exactly as datetime does.       *)
(* A call that raises returns a record whose exc field names the           *)
(* exception.                                                              *)
(***************************************************************************)
EXTENDS Integers, Sequences, FiniteSets, TLC

VARIABLES
    call,    \* the pending / finished call of a date helper (SpecDates)
    db,      \* committed rows of table work_selections
    nextId,  \* next autoincrement value of work_selections.id
    nops,    \* number of requests handled / transactions begun so far
    last,    \* the last request handled and its response
    tx       \* the open upsert_user_week transactions (SpecTx)

vars == <<call, db, nextId, nops, last, tx>>

(***************************************************************************)
(* Bounds of the model.                                                    *)
(***************************************************************************)
WeekSlack == 7      \* weeks range over (1 - WeekSlack)..(53 + WeekSlack)
MaxOps == 2         \* requests handled in one behaviour of Spec
MaxBegun == 2       \* sessions opened in one behaviour of SpecTx

(***************************************************************************)
(* datetime: the range of date and the calendar arithmetic behind          *)
(* date(y, m, d), isocalendar(), fromisocalendar() and date + timedelta.   *)
(***************************************************************************)
MINYEAR == 1
MAXYEAR == 9999

NoDate == [year |-> 0, month |-> 0, day |-> 0]

_is_leap(year) == year % 4 = 0 /\ (year % 100 # 0 \/ year % 400 = 0)

_days_before_year(year) ==
    LET y == year - 1
    IN  y * 365 + (y \div 4) - (y \div 100) + (y \div 400)

DAYS_IN_MONTH == <<31, 28, 31, 30, 31, 30, 31, 31, 30, 31, 30, 31>>
DAYS_BEFORE_MONTH == <<0, 31, 59, 90, 120, 151, 181, 212, 243, 273, 304, 334>>

_days_before_month(year, month) ==
    DAYS_BEFORE_MONTH[month] + (IF month > 2 /\ _is_leap(year) THEN 1 ELSE 0)

_ymd2ord(year, month, day) ==
    _days_before_year(year) + _days_before_month(year, month) + day

MAXORDINAL == _ymd2ord(MAXYEAR, 12, 31)

\* ordinal -> (year, month, day), 1 <= n <= MAXORDINAL
_ord2ymd(n0) ==
    LET n1_  == n0 - 1
        n400 == n1_ \div 146097
        r400 == n1_ % 146097
        n100 == r400 \div 36524
        r100 == r400 % 36524
        n4   == r100 \div 1461
        r4   == r100 % 1461
        n1   == r4 \div 365
        n    == r4 % 365
        year == n400 * 400 + 1 + n100 * 100 + n4 * 4 + n1
        leapyear == n1 = 3 /\ (n4 # 24 \/ n100 = 3)
        month0 == (n + 50) \div 32
        prec0  == DAYS_BEFORE_MONTH[month0] + (IF month0 > 2 /\ leapyear THEN 1 ELSE 0)
        month  == IF prec0 > n THEN month0 - 1 ELSE month0
        prec   == IF prec0 > n
                  THEN prec0 - (DAYS_IN_MONTH[month]
                                + (IF month = 2 /\ leapyear THEN 1 ELSE 0))
                  ELSE prec0
    IN  IF n1 = 4 \/ n100 = 4
        THEN [year |-> year - 1, month |-> 12, day |-> 31]
        ELSE [year |-> year, month |-> month, day |-> n - prec + 1]

toordinal(d) == _ymd2ord(d.year, d.month, d.day)

\* weekday(): Monday = 0 .. Sunday = 6
weekday(d) == (toordinal(d) + 6) % 7

_isoweek1monday(year) ==
    LET firstday == _ymd2ord(year, 1, 1)
        firstweekday == (firstday + 6) % 7
        week1monday == firstday - firstweekday
    IN  IF firstweekday > 3 THEN week1monday + 7 ELSE week1monday

\* isocalendar() once the ordinal of the date and the Monday of ISO week 1
\* of its calendar year are known
isocalendar_from(year, today, week1monday) ==
    IF (today - week1monday) \div 7 < 0
    THEN [year |-> year - 1,
          week |-> ((today - _isoweek1monday(year - 1)) \div 7) + 1,
          weekday |-> ((today - _isoweek1monday(year - 1)) % 7) + 1]
    ELSE IF (today - week1monday) \div 7 >= 52 /\ today >= _isoweek1monday(year + 1)
    THEN [year |-> year + 1, week |-> 1,
          weekday |-> ((today - week1monday) % 7) + 1]
    ELSE [year |-> year, week |-> ((today - week1monday) \div 7) + 1,
          weekday |-> ((today - week1monday) % 7) + 1]

\* d.isocalendar() -> (ISO year, ISO week, ISO weekday)
isocalendar(d) == isocalendar_from(d.year, toordinal(d), _isoweek1monday(d.year))

\* date.fromisocalendar(year, week, day)
fromisocalendar(year, week, day) ==
    LET first_weekday == _ymd2ord(year, 1, 1) % 7
        ord_day == _isoweek1monday(year) + (week - 1) * 7 + (day - 1)
    IN  IF ~(MINYEAR <= year /\ year <= MAXYEAR)
        THEN [exc |-> "ValueError", date |-> NoDate]
        ELSE IF /\ ~(0 < week /\ week < 53)
                /\ ~(week = 53 /\ (first_weekday = 4
                                   \/ (first_weekday = 3 /\ _is_leap(year))))
        THEN [exc |-> "ValueError", date |-> NoDate]
        ELSE IF ~(0 < day /\ day < 8)
        THEN [exc |-> "ValueError", date |-> NoDate]
        ELSE IF ~(1 <= ord_day /\ ord_day <= MAXORDINAL)
        THEN [exc |-> "ValueError", date |-> NoDate]
        ELSE [exc |-> "none", date |-> _ord2ymd(ord_day)]

\* date.fromordinal(o), OverflowError outside the range of date
fromordinal_checked(o) ==
    IF 0 < o /\ o <= MAXORDINAL
    THEN [exc |-> "none", date |-> _ord2ymd(o)]
    ELSE [exc |-> "OverflowError", date |-> NoDate]

\* d + timedelta(days=i)
date_add(d, i) == fromordinal_checked(toordinal(d) + i)

\* d.isoformat(): the text YYYY-MM-DD, kept as its three numeric fields
isoformat(d) == <<d.year, d.month, d.day>>

(***************************************************************************)
(* Bestehende Logik                                                        *)
(***************************************************************************)
LOCATIONS == <<"Homeoffice", "Office", "Customer">>
WEEKDAY_NAMES ==
    <<"Montag", "Dienstag", "Mittwoch", "Donnerstag", "Freitag", "Samstag", "Sonntag">>

Max(a, b) == IF a >= b THEN a ELSE b
Min(a, b) == IF a <= b THEN a ELSE b

\* date(year, 12, 31) in place of date(year, 12, 28)
iso_last_week_dec31(year) ==
    IF MINYEAR <= year /\ year <= MAXYEAR
    THEN [exc |-> "none",
          value |-> isocalendar([year |-> year, month |-> 12, day |-> 31]).week]
    ELSE [exc |-> "ValueError", value |-> 0]

\* date(year, 12, 28).isocalendar()[1]; date() raises ValueError for a year
\* outside MINYEAR..MAXYEAR
iso_last_week(year) ==
    IF MINYEAR <= year /\ year <= MAXYEAR
    THEN [exc |-> "none",
          value |-> isocalendar([year |-> year, month |-> 12, day |-> 28]).week]
    ELSE [exc |-> "ValueError", value |-> 0]

NoDays == <<>>
Raised(exc) == [exc |-> exc, days |-> NoDays, week |-> 0]

\* line 99, given the results of the seven additions: the list, or the
\* exception of the first addition that raises
week_list(adds, week) ==
    IF \E i \in 1..7 : adds[i].exc # "none"
    THEN Raised(adds[CHOOSE i \in 1..7 :
                        /\ adds[i].exc # "none"
                        /\ \A j \in 1..(i - 1) : adds[j].exc = "none"].exc)
    ELSE [exc |-> "none",
          days |-> <<adds[1].date, adds[2].date, adds[3].date, adds[4].date,
                     adds[5].date, adds[6].date, adds[7].date>>,
          week |-> week]

\* line 99: [monday + timedelta(days=i) for i in range(7)], week
week_from(monday, week) ==
    IF monday.exc # "none" THEN Raised(monday.exc)
    ELSE week_list(<<date_add(monday.date, 0), date_add(monday.date, 1),
                     date_add(monday.date, 2), date_add(monday.date, 3),
                     date_add(monday.date, 4), date_add(monday.date, 5),
                     date_add(monday.date, 6)>>, week)

\* lines 98-99 for the week settled on
week_dates(year, week) == week_from(fromisocalendar(year, week, 1), week)

\* line 97 without the clamp
clamp_week_off(year, week, lw) ==
    IF lw.exc # "none" THEN Raised(lw.exc)
    ELSE week_dates(year, week)

\* line 97: week = max(1, min(int(week), lw)), then lines 98-99
clamp_week(year, week, lw) ==
    IF lw.exc # "none" THEN Raised(lw.exc)
    ELSE week_dates(year, Max(1, Min(week, lw.value)))

get_week_dates(year, week) == clamp_week(year, week, iso_last_week(year))

(***************************************************************************)
(* Week navigation of the index handler (lines 163-182), for the year and  *)
(* week the handler settled on.                                            *)
(***************************************************************************)
NoNav == [exc |-> "none", year |-> 0, week |-> 0, last_week |-> 0,
          prev_year |-> 0, prev_week |-> 0, next_year |-> 0, next_week |-> 0]

\* lines 176-182, given iso_last_week(default_year)
nav_next(nav, last_week_this_year) ==
    [nav EXCEPT
        !.last_week = last_week_this_year,
        !.next_year = IF nav.week = last_week_this_year THEN nav.year + 1
                      ELSE nav.year,
        !.next_week = IF nav.week = last_week_this_year THEN 1 ELSE nav.week + 1]

\* lines 169-174 with prev of week 1 left in the same year
nav_prev_same_year(default_year, normalized_week, plw) ==
    nav_next([NoNav EXCEPT !.year = default_year, !.week = normalized_week,
                           !.prev_year = default_year,
                           !.prev_week = IF normalized_week = 1
                                         THEN iso_last_week(default_year).value
                                         ELSE normalized_week - 1],
             iso_last_week(default_year).value)

\* lines 169-174, given iso_last_week(default_year - 1), which is called
\* only when normalized_week is 1
nav_prev(default_year, normalized_week, plw) ==
    IF normalized_week = 1 /\ plw.exc # "none"
    THEN [NoNav EXCEPT !.exc = plw.exc]
    ELSE nav_next([NoNav EXCEPT
                      !.year = default_year, !.week = normalized_week,
                      !.prev_year = IF normalized_week = 1 THEN default_year - 1
                                    ELSE default_year,
                      !.prev_week = IF normalized_week = 1 THEN plw.value
                                    ELSE normalized_week - 1],
                  iso_last_week(default_year).value)

\* lines 163-182, given the result of get_week_dates
nav_of(default_year, gw) ==
    IF gw.exc # "none" THEN [NoNav EXCEPT !.exc = gw.exc]
    ELSE nav_prev(default_year, gw.week, iso_last_week(default_year - 1))

IndexNav(default_year, default_week) ==
    nav_of(default_year, get_week_dates(default_year, default_week))

(***************************************************************************)
(* Request fields.  A form / query field is absent (None) or a text, kept  *)
(* as its sequence of characters; int() parses it.                         *)
(***************************************************************************)
Absent == [present |-> FALSE, text |-> <<>>]
Field(chars) == [present |-> TRUE, text |-> chars]

DigitChars == <<"0", "1", "2", "3", "4", "5", "6", "7", "8", "9">>
IsDigit(c) == \E i \in 1..10 : DigitChars[i] = c
DigitVal(c) == (CHOOSE i \in 1..10 : DigitChars[i] = c) - 1

RECURSIVE LStrip(_)
LStrip(s) == IF s # <<>> /\ Head(s) = " " THEN LStrip(Tail(s)) ELSE s
RECURSIVE RStrip(_)
RStrip(s) ==
    IF s # <<>> /\ s[Len(s)] = " " THEN RStrip(SubSeq(s, 1, Len(s) - 1)) ELSE s

\* digits with single underscores between them
WellFormedDigits(s) ==
    /\ s # <<>>
    /\ IsDigit(s[1]) /\ IsDigit(s[Len(s)])
    /\ \A i \in 1..Len(s) : IsDigit(s[i]) \/ s[i] = "_"
    /\ \A i \in 1..(Len(s) - 1) : ~(s[i] = "_" /\ s[i + 1] = "_")

RECURSIVE DigitsValue(_, _)
DigitsValue(s, acc) ==
    IF s = <<>> THEN acc
    ELSE IF Head(s) = "_" THEN DigitsValue(Tail(s), acc)
    ELSE DigitsValue(Tail(s), acc * 10 + DigitVal(Head(s)))

\* int(field): TypeError for None, ValueError for a text that is no integer
ParseInt(field) ==
    LET s == RStrip(LStrip(field.text))
        signed == s # <<>> /\ Head(s) \in {"+", "-"}
        body == IF signed THEN Tail(s) ELSE s
        mag == DigitsValue(body, 0)
    IN  IF ~field.present THEN [exc |-> "TypeError", value |-> 0]
        ELSE IF ~WellFormedDigits(body) THEN [exc |-> "ValueError", value |-> 0]
        ELSE [exc |-> "none",
              value |-> IF signed /\ Head(s) = "-" THEN 0 - mag ELSE mag]

(***************************************************************************)
(* The form payload: a mapping from field name loc_<ISO date> to the       *)
(* submitted text.                                                         *)
(***************************************************************************)
LocKey(d) == <<"loc_">> \o isoformat(d)

EmptyPayload == [k \in {} |-> ""]

\* form_payload.get(key, "")
PayloadGet(payload, key) == IF key \in DOMAIN payload THEN payload[key] ELSE ""

InLocations(sel) == \E i \in 1..Len(LOCATIONS) : LOCATIONS[i] = sel

\* lines 115-117 with the membership test dropped
NormalizeSel_raw(payload, d) == PayloadGet(payload, LocKey(d))

\* lines 114-117
NormalizeSel(payload, d) ==
    LET sel == PayloadGet(payload, LocKey(d))
    IN  IF ~InLocations(sel) THEN "" ELSE sel


(***************************************************************************)
(* Table work_selections and the ORM session of upsert_user_week.          *)
(* A row is [id, user_id, date, year, week, location].  A session holds    *)
(* the rows it has added (ins) and the changes to rows it has loaded       *)
(* (upd) until commit.                                                     *)
(***************************************************************************)
NoSession == [ins |-> {}, upd |-> {}, nextId |-> 0, updated |-> 0, submitted |-> <<>>]

\* the constraint not declared
uq_user_date_missing(rows) == TRUE

\* UniqueConstraint("user_id", "date", name="uq_user_date")
uq_user_date(rows) ==
    \A r1 \in rows, r2 \in rows :
        (r1.user_id = r2.user_id /\ r1.date = r2.date) => r1.id = r2.id

\* the UPDATEs of a session applied to the rows
ApplyUpd(rows, upd) ==
    { IF \E u \in upd : u.id = r.id
      THEN [r EXCEPT !.location = (CHOOSE u \in upd : u.id = r.id).location,
                     !.year = (CHOOSE u \in upd : u.id = r.id).year,
                     !.week = (CHOOSE u \in upd : u.id = r.id).week]
      ELSE r : r \in rows }

\* what a SELECT of the session sees: the committed rows with the session's
\* own flushed changes
Visible(rows, sess) == ApplyUpd(rows, sess.upd) \cup sess.ins

\* select(WorkSelection).where(user_id == .., date == ..)
SelectExisting(rows, user_id, d) == { r \in rows : r.user_id = user_id /\ r.date = d }

\* s.scalar(..): the first row of the result
FirstRow(rs) == CHOOSE r \in rs : \A q \in rs : r.id <= q.id

\* lines 121-126, given sel and the result of the SELECT
upsert_row(sess, user_id, year, week_norm, d, sel, existing) ==
    IF existing # {}
    THEN [sess EXCEPT
            !.upd = {u \in @ : u.id # FirstRow(existing).id}
                    \cup {[id |-> FirstRow(existing).id, location |-> sel,
                           year |-> year, week |-> week_norm]},
            !.updated = @ + 1]
    ELSE [sess EXCEPT
            !.ins = @ \cup {[id |-> sess.nextId, user_id |-> user_id, date |-> d,
                             year |-> year, week |-> week_norm, location |-> sel]},
            !.nextId = @ + 1]

\* line 115: the session notes the text it read for the day
read_field(sess, payload, d) ==
    [sess EXCEPT !.submitted = Append(@, PayloadGet(payload, LocKey(d)))]

\* the loop body always takes the else branch (s.add)
UpsertDay_always_add(rows, sess, user_id, year, week_norm, d, payload, week) ==
    upsert_row(read_field(sess, payload, d), user_id, year, week_norm, d, NormalizeSel(payload, d), {})

\* the loop body stores the requested week, not week_norm
UpsertDay_raw_week(rows, sess, user_id, year, week_norm, d, payload, week) ==
    upsert_row(read_field(sess, payload, d), user_id, year, week, d, NormalizeSel(payload, d),
               SelectExisting(Visible(rows, sess), user_id, d))

\* the loop body writes the rows of every user
UpsertDay_any_user(rows, sess, user_id, year, week_norm, d, payload, week) ==
    upsert_row(read_field(sess, payload, d), user_id, year, week_norm, d, NormalizeSel(payload, d),
               { r \in Visible(rows, sess) : r.date = d })

\* lines 114-126: one iteration of the loop of upsert_user_week; `week` is
\* the week requested, week_norm the clamped one
UpsertDay(rows, sess, user_id, year, week_norm, d, payload, week) ==
    upsert_row(read_field(sess, payload, d), user_id, year, week_norm, d, NormalizeSel(payload, d),
               SelectExisting(Visible(rows, sess), user_id, d))

\* the outcome of a commit that would leave the table as `new`
commit_of(rows, sess, new) ==
    IF uq_user_date(new)
    THEN [exc |-> "none", rows |-> new, nextId |-> sess.nextId,
          updated |-> sess.updated, submitted |-> sess.submitted]
    ELSE [exc |-> "IntegrityError", rows |-> rows, nextId |-> sess.nextId,
          updated |-> 0, submitted |-> sess.submitted]

\* s.commit(): the rows after the commit, or IntegrityError and the rows as
\* they were
Commit(rows, sess) == commit_of(rows, sess, Visible(rows, sess))

RECURSIVE UpsertLoop(_, _, _, _, _, _, _, _, _)
UpsertLoop(rows, sess, user_id, year, week_norm, days, payload, week, idx) ==
    IF idx > Len(days) THEN sess
    ELSE UpsertLoop(rows,
                    UpsertDay(rows, sess, user_id, year, week_norm, days[idx],
                              payload, week),
                    user_id, year, week_norm, days, payload, week, idx + 1)

\* lines 112-127, given the result of get_week_dates
upsert_session(rows, nid, user_id, year, week, payload, gw) ==
    IF gw.exc # "none"
    THEN [exc |-> gw.exc, rows |-> rows, nextId |-> nid, updated |-> 0,
          submitted |-> <<>>]
    ELSE Commit(rows,
                UpsertLoop(rows, [NoSession EXCEPT !.nextId = nid], user_id, year,
                           gw.week, gw.days, payload, week, 1))

\* upsert_user_week run alone: the rows after it, or the exception it raises
upsert_user_week(rows, nid, user_id, year, week, payload) ==
    upsert_session(rows, nid, user_id, year, week, payload,
                   get_week_dates(year, week))

\* load_selections_for_user_week: {d.isoformat(): location}
load_selections_for_user_week(rows, user_id, days_list) ==
    [k \in { isoformat(r.date) :
                r \in { q \in rows : /\ q.user_id = user_id
                                     /\ \E i \in 1..Len(days_list) :
                                           days_list[i] = q.date } } |->
        (CHOOSE r \in rows : r.user_id = user_id /\ isoformat(r.date) = k).location]

\* selections.get(d.isoformat(), "")
SelectionsGet(selections, d) ==
    IF isoformat(d) \in DOMAIN selections THEN selections[isoformat(d)] ELSE ""

(***************************************************************************)
(* Requests.  The users, and the field values and payloads a request is    *)
(* drawn from.                                                             *)
(***************************************************************************)
Users == {1, 2}
UserName(u) == IF u = 1 THEN "Jakob Nimmerfall" ELSE "Pilot Zwei"

YearFields ==
    { Absent, Field(<<"2", "0", "x">>), Field(<<"0">>),
      Field(<<" ", "2", "0", "2", "0">>) }

WeekFields ==
    { Absent, Field(<<"1", ".", "5">>), Field(<<"-", "1">>), Field(<<"5", "3">>),
      Field(<<"6", "0">>) }

\* date.today() of the index handler
Todays == { [year |-> 2020, month |-> 12, day |-> 31] }

\* what the seven selects of a rendered form can submit; "<absent>" leaves
\* the field out of the form data
Patterns ==
    { <<"Homeoffice", "Office", "Customer", "", "Remote", "<absent>", "office">>,
      <<"Office", "Office", "Homeoffice", "Customer", "Customer", "Homeoffice", "Office">> }

MkPayload(days, pattern) ==
    [k \in { LocKey(days[i]) : i \in { j \in 1..7 : pattern[j] # "<absent>" } } |->
        pattern[CHOOSE i \in 1..7 : LocKey(days[i]) = k]]

\* the week whose rendered form the payloads come from
FormWeeks == { <<2020, 53>> }

Payloads ==
    { MkPayload(get_week_dates(fw[1], fw[2]).days, pat) :
         fw \in FormWeeks, pat \in Patterns }

NoExport == <<>>
NoSelections == [k \in {} |-> ""]

NoLast ==
    [route |-> "none", user |-> 0, f_year |-> Absent, f_week |-> Absent,
     submitted |-> <<>>, parsed |-> FALSE, year |-> 0, week |-> 0,
     status |-> 0, body |-> "", exc |-> "none", updated |-> 0,
     export |-> NoExport, nav |-> NoNav, selections |-> NoSelections]

Request(route, user, f_year, f_week) ==
    [NoLast EXCEPT !.route = route, !.user = user, !.f_year = f_year,
                   !.f_week = f_week]

\* the body of the 400 response, "Ungültige Kalenderangabe."
BadCalendar == "Ungueltige Kalenderangabe."

(***************************************************************************)
(* POST /save                                                              *)
(***************************************************************************)
\* lines 208-210, given the outcome of upsert_user_week; an exception
\* leaves the handler as a 500 response
save_done(rows, nid, req, up) ==
    IF up.exc # "none"
    THEN [rows |-> rows, nextId |-> nid,
          last |-> [req EXCEPT !.status = 500, !.exc = up.exc]]
    ELSE [rows |-> up.rows, nextId |-> up.nextId,
          last |-> [req EXCEPT !.status = 302, !.updated = up.updated,
                               !.submitted = up.submitted]]

\* lines 203-208, given int() of the two fields
save_parsed(rows, nid, req, payload, py, pw) ==
    IF py.exc # "none" \/ pw.exc # "none"
    THEN [rows |-> rows, nextId |-> nid,
          last |-> [req EXCEPT !.status = 400, !.body = BadCalendar]]
    ELSE save_done(rows, nid,
                   [req EXCEPT !.parsed = TRUE, !.year = py.value,
                               !.week = pw.value],
                   upsert_user_week(rows, nid, req.user, py.value, pw.value,
                                    payload))

SaveResponse(rows, nid, user, f_year, f_week, payload) ==
    save_parsed(rows, nid, Request("save", user, f_year, f_week), payload,
                ParseInt(f_year), ParseInt(f_week))

(***************************************************************************)
(* POST /download                                                          *)
(***************************************************************************)
\* lines 226-235
export_rows(selections, user, year, gw) ==
    [i \in 1..7 |->
        [Name |-> UserName(user), Jahr |-> year, Kalenderwoche |-> gw.week,
         Datum |-> isoformat(gw.days[i]), Wochentag |-> WEEKDAY_NAMES[i],
         Standort |-> SelectionsGet(selections, gw.days[i])]]

\* lines 225-235
ExportRows(rows, user, year, gw) ==
    export_rows(load_selections_for_user_week(rows, user, gw.days), user, year, gw)

\* the selections are loaded before upsert_user_week has run
download_done_export_first(rows, nid, req, up) ==
    IF up.exc # "none"
    THEN [rows |-> rows, nextId |-> nid,
          last |-> [req EXCEPT !.status = 500, !.exc = up.exc]]
    ELSE [rows |-> up.rows, nextId |-> up.nextId,
          last |-> [req EXCEPT
                       !.status = 200, !.updated = up.updated,
                       !.submitted = up.submitted,
                       !.export = ExportRows(rows, req.user, req.year,
                                             get_week_dates(req.year, req.week))]]

\* lines 222-256, given the outcome of upsert_user_week
download_done(rows, nid, req, up) ==
    IF up.exc # "none"
    THEN [rows |-> rows, nextId |-> nid,
          last |-> [req EXCEPT !.status = 500, !.exc = up.exc]]
    ELSE [rows |-> up.rows, nextId |-> up.nextId,
          last |-> [req EXCEPT
                       !.status = 200, !.updated = up.updated,
                       !.submitted = up.submitted,
                       !.export = ExportRows(up.rows, req.user, req.year,
                                             get_week_dates(req.year, req.week))]]

\* lines 216-222, given int() of the two fields
download_parsed(rows, nid, req, payload, py, pw) ==
    IF py.exc # "none" \/ pw.exc # "none"
    THEN [rows |-> rows, nextId |-> nid,
          last |-> [req EXCEPT !.status = 400, !.body = BadCalendar]]
    ELSE download_done(rows, nid,
                       [req EXCEPT !.parsed = TRUE, !.year = py.value,
                                   !.week = pw.value],
                       upsert_user_week(rows, nid, req.user, py.value, pw.value,
                                        payload))

DownloadResponse(rows, nid, user, f_year, f_week, payload) ==
    download_parsed(rows, nid, Request("download", user, f_year, f_week), payload,
                    ParseInt(f_year), ParseInt(f_week))

(***************************************************************************)
(* GET /                                                                   *)
(***************************************************************************)
\* lines 163-198 for the year and week settled on
index_render(rows, req, gw, nav) ==
    IF nav.exc # "none"
    THEN [req EXCEPT !.status = 500, !.exc = nav.exc]
    ELSE [req EXCEPT !.status = 200, !.nav = nav,
                     !.selections =
                         load_selections_for_user_week(rows, req.user, gw.days)]

index_week(rows, req) ==
    index_render(rows, req, get_week_dates(req.year, req.week),
                 IndexNav(req.year, req.week))

\* lines 158-161; request.args.get(.., type=int) is None when the argument
\* is absent or no integer
index_defaults(rows, req, py, pw, today_iso) ==
    index_week(rows,
               [req EXCEPT
                   !.parsed = TRUE,
                   !.year = IF req.f_year.present /\ py.exc = "none" /\ py.value # 0
                            THEN py.value ELSE today_iso.year,
                   !.week = IF req.f_week.present /\ pw.exc = "none"
                            THEN pw.value ELSE today_iso.week])

IndexResponse(rows, user, a_year, a_week, today) ==
    index_defaults(rows, Request("index", user, a_year, a_week),
                   ParseInt(a_year), ParseInt(a_week), isocalendar(today))

(***************************************************************************)
(* Spec: requests handled one after another.                               *)
(***************************************************************************)
NoLw == [exc |-> "none", value |-> 0]
NoGw == [exc |-> "none", days |-> NoDays, week |-> 0]
NoCall == [fn |-> "none", year |-> 0, week |-> 0,
           lw |-> NoLw, gw |-> NoGw, nav |-> NoNav]

Txns == {1, 2}
IdleTx == [pc |-> "idle", user_id |-> 0, year |-> 0, week |-> 0, week_norm |-> 0,
           days |-> NoDays, payload |-> EmptyPayload, idx |-> 0,
           sess |-> NoSession, raced |-> FALSE]

Init ==
    /\ call = NoCall
    /\ db = {}
    /\ nextId = 1
    /\ nops = 0
    /\ last = NoLast
    /\ tx = [t \in Txns |-> IdleTx]

Index(user, a_year, a_week, today) ==
    /\ nops < MaxOps
    /\ last' = IndexResponse(db, user, a_year, a_week, today)
    /\ nops' = nops + 1
    /\ UNCHANGED <<call, db, nextId, tx>>

Save(user, f_year, f_week, payload) ==
    /\ nops < MaxOps
    /\ LET r == SaveResponse(db, nextId, user, f_year, f_week, payload)
       IN  /\ db' = r.rows
           /\ nextId' = r.nextId
           /\ last' = r.last
    /\ nops' = nops + 1
    /\ UNCHANGED <<call, tx>>

Download(user, f_year, f_week, payload) ==
    /\ nops < MaxOps
    /\ LET r == DownloadResponse(db, nextId, user, f_year, f_week, payload)
       IN  /\ db' = r.rows
           /\ nextId' = r.nextId
           /\ last' = r.last
    /\ nops' = nops + 1
    /\ UNCHANGED <<call, tx>>

Next ==
    \/ \E u \in Users, fy \in YearFields, fw \in WeekFields, t \in Todays :
          Index(u, fy, fw, t)
    \/ \E u \in Users, fy \in YearFields, fw \in WeekFields, p \in Payloads :
          Save(u, fy, fw, p)
    \/ \E u \in Users, fy \in YearFields, fw \in WeekFields, p \in Payloads :
          Download(u, fy, fw, p)

Spec == Init /\ [][Next]_vars

(***************************************************************************)
(* SpecDates: the date helpers applied to a year and a week.               *)
(***************************************************************************)
Years == {0, 1, 2, 2020, 2021, 2024, 9998, 9999, 10000}
Weeks == (1 - WeekSlack)..(53 + WeekSlack)

InitDates ==
    /\ call \in { [NoCall EXCEPT !.year = y, !.week = w] : y \in Years, w \in Weeks }
    /\ db = {}
    /\ nextId = 1
    /\ nops = 0
    /\ last = NoLast
    /\ tx = [t \in Txns |-> IdleTx]

CallIsoLastWeek ==
    /\ call.fn = "none"
    /\ call' = [call EXCEPT !.fn = "iso_last_week", !.lw = iso_last_week(call.year)]
    /\ UNCHANGED <<db, nextId, nops, last, tx>>

CallGetWeekDates ==
    /\ call.fn = "none"
    /\ call' = [call EXCEPT !.fn = "get_week_dates",
                            !.gw = get_week_dates(call.year, call.week)]
    /\ UNCHANGED <<db, nextId, nops, last, tx>>

CallIndexNav ==
    /\ call.fn = "none"
    /\ call' = [call EXCEPT !.fn = "index", !.nav = IndexNav(call.year, call.week)]
    /\ UNCHANGED <<db, nextId, nops, last, tx>>

NextDates == CallIsoLastWeek \/ CallGetWeekDates \/ CallIndexNav

SpecDates == InitDates /\ [][NextDates]_vars

(***************************************************************************)
(* SpecTx: two sessions of upsert_user_week whose statements interleave.   *)
(* A SELECT sees the rows committed so far; the uniqueness constraint is   *)
(* decided when the session commits, and a failed commit rolls the whole   *)
(* session back.                                                           *)
(***************************************************************************)
TxWeeks == { <<2020, 53>>, <<2020, 60>> }
TxPayloads == Payloads

\* lines 111-112: the session of one call; the ids its INSERTs draw from the
\* sequence are the seven from nid on
tx_open(nid, user, year, week, payload, gw) ==
    IF gw.exc # "none" THEN [IdleTx EXCEPT !.pc = "raised"]
    ELSE [IdleTx EXCEPT !.pc = "loop", !.user_id = user, !.year = year,
                        !.week = week, !.week_norm = gw.week, !.days = gw.days,
                        !.payload = payload, !.idx = 1,
                        !.sess = [NoSession EXCEPT !.nextId = nid]]

TxBegin(t, user, year, week, payload) ==
    /\ nops < MaxBegun
    /\ tx[t].pc \in {"idle", "committed", "failed"}
    /\ tx' = [tx EXCEPT ![t] = tx_open(nextId, user, year, week, payload,
                                        get_week_dates(year, week))]
    /\ nextId' = nextId + 7
    /\ nops' = nops + 1
    /\ UNCHANGED <<call, db, last>>

TxDay(t) ==
    /\ tx[t].pc = "loop"
    /\ tx[t].idx <= 7
    /\ tx' = [tx EXCEPT
                 ![t].sess = UpsertDay(db, tx[t].sess, tx[t].user_id, tx[t].year,
                                       tx[t].week_norm, tx[t].days[tx[t].idx],
                                       tx[t].payload, tx[t].week),
                 ![t].idx = @ + 1]
    /\ UNCHANGED <<call, db, nextId, nops, last>>

TxCommit(t) ==
    /\ tx[t].pc = "loop"
    /\ tx[t].idx = 8
    /\ db' = Commit(db, tx[t].sess).rows
    /\ tx' = [tx EXCEPT
                 ![t].pc = IF Commit(db, tx[t].sess).exc = "none"
                           THEN "committed" ELSE "failed",
                 ![t].raced = \E o \in Txns \ {t} :
                                  tx[o].pc = "loop" /\ tx[o].idx = 8]
    /\ UNCHANGED <<call, nextId, nops, last>>

NextTx ==
    \/ \E t \in Txns, u \in Users, w \in TxWeeks, p \in TxPayloads :
          TxBegin(t, u, w[1], w[2], p)
    \/ \E t \in Txns : TxDay(t)
    \/ \E t \in Txns : TxCommit(t)

SpecTx == Init /\ [][NextTx]_vars


(***************************************************************************)
(* Properties.                                                             *)
(***************************************************************************)
ValidYear(y) == MINYEAR <= y /\ y <= MAXYEAR

\* the days of ISO week (year, week) are monday .. sunday in `days`
IsIsoWeek(days, year, week) ==
    /\ Len(days) = 7
    /\ weekday(days[1]) = 0
    /\ \A i \in 1..6 : toordinal(days[i + 1]) = toordinal(days[i]) + 1
    /\ \A i \in 1..7 :
          isocalendar(days[i]) = [year |-> year, week |-> week, weekday |-> i]

WeekContract(c) ==
    /\ c.gw.exc = "none"
    /\ c.gw.week = Max(1, Min(c.week, iso_last_week(c.year).value))
    /\ IsIsoWeek(c.gw.days, c.year, c.gw.week)
    /\ (c.year = 2024 /\ c.week = 1) =>
          /\ c.gw.days[1] = [year |-> 2024, month |-> 1, day |-> 1]
          /\ c.gw.days[7] = [year |-> 2024, month |-> 1, day |-> 7]
    /\ (c.year = 2024 /\ c.week = 60) => c.gw.week = 52

\* C1 as stated: for every year of datetime.date and every integer week,
\* get_week_dates returns the seven days Monday..Sunday of ISO week
\* (year, clamped week) together with the clamped week.
C1_EveryWeek ==
    (call.fn = "get_week_dates" /\ ValidYear(call.year)) => WeekContract(call)

\* C1 amended: the same, except for year 9999 with a week of 52 or more,
\* whose last week runs past date.max: there get_week_dates raises
\* OverflowError.
C1_EveryRepresentableWeek ==
    (call.fn = "get_week_dates" /\ ValidYear(call.year)) =>
        IF call.year = MAXYEAR /\ call.week >= 52
        THEN call.gw.exc = "OverflowError"
        ELSE WeekContract(call)

C1_Witness ==
    /\ call.fn = "get_week_dates"
    /\ call.year = 2024 /\ call.week = 60
    /\ call.gw.exc = "none" /\ call.gw.week = 52
    /\ call.gw.days[1] = [year |-> 2024, month |-> 12, day |-> 23]

\* some date of datetime.date lies in ISO week (year, week)
IsoWeekExists(year, week) ==
    \E o \in (_ymd2ord(year, 1, 1) - 6)..(_ymd2ord(year, 12, 31) + 6) :
        /\ 1 <= o /\ o <= MAXORDINAL
        /\ isocalendar(_ord2ymd(o)).year = year
        /\ isocalendar(_ord2ymd(o)).week = week

\* C2: for every year of datetime.date, iso_last_week is 52 or 53 and is the
\* number of the last ISO week of the year: that week exists and the next
\* one does not.
C2_LastWeek ==
    (call.fn = "iso_last_week" /\ ValidYear(call.year)) =>
        /\ call.lw.exc = "none"
        /\ call.lw.value \in {52, 53}
        /\ IsoWeekExists(call.year, call.lw.value)
        /\ ~IsoWeekExists(call.year, call.lw.value + 1)

C2_Witness ==
    /\ call.fn = "iso_last_week" /\ call.year = 2020
    /\ call.lw.exc = "none" /\ call.lw.value = 53

\* a (year, week) pair that names an ISO week
IsValidWeek(year, week) ==
    /\ ValidYear(year)
    /\ 1 <= week /\ week <= iso_last_week(year).value

\* lines 169-174 and lines 176-182 as functions of a (year, week) pair
PrevOf(year, week) == nav_prev(year, week, iso_last_week(year - 1))
NextOf(year, week) ==
    nav_next([NoNav EXCEPT !.year = year, !.week = week], iso_last_week(year).value)
MondayOrd(year, week) == toordinal(fromisocalendar(year, week, 1).date)

NavContract(n) ==
    /\ n.exc = "none"
    /\ IsValidWeek(n.year, n.week)
    /\ IsValidWeek(n.next_year, n.next_week)
    /\ IsValidWeek(n.prev_year, n.prev_week)
    /\ IF n.week = iso_last_week(n.year).value
       THEN n.next_year = n.year + 1 /\ n.next_week = 1
       ELSE n.next_year = n.year /\ n.next_week = n.week + 1
    /\ IF n.week = 1
       THEN n.prev_year = n.year - 1
            /\ n.prev_week = iso_last_week(n.year - 1).value
       ELSE n.prev_year = n.year /\ n.prev_week = n.week - 1
    \* prev(next(Y, w)) = (Y, w)
    /\ PrevOf(n.next_year, n.next_week).exc = "none"
    /\ PrevOf(n.next_year, n.next_week).prev_year = n.year
    /\ PrevOf(n.next_year, n.next_week).prev_week = n.week
    \* next(prev(Y, w)) = (Y, w)
    /\ NextOf(n.prev_year, n.prev_week).next_year = n.year
    /\ NextOf(n.prev_year, n.prev_week).next_week = n.week
    /\ MondayOrd(n.next_year, n.next_week) = MondayOrd(n.year, n.week) + 7

AllowedLocations == {"Homeoffice", "Office", "Customer", ""}
Norm(v) == IF v \in {"Homeoffice", "Office", "Customer"} THEN v ELSE ""

RowsOf(rows, u, d) == { r \in rows : r.user_id = u /\ r.date = d }

NoDuplicateRows(rows) ==
    \A r1 \in rows, r2 \in rows :
        (r1.user_id = r2.user_id /\ r1.date = r2.date) => r1 = r2

IsUpsertRoute(l) == l.route \in {"save", "download"}
\* the request named a year and a week get_week_dates accepts
CalendarOk(l) == l.parsed /\ get_week_dates(l.year, l.week).exc = "none"
\* the handler ran upsert_user_week to its commit
UpsertDone(l) == IsUpsertRoute(l) /\ l.status \in {302, 200}
DaysOf(l) == get_week_dates(l.year, l.week).days
ClampedWeek(l) == Max(1, Min(l.week, iso_last_week(l.year).value))

\* the rows of one upsert for the days `days`: one row per day, in place
UpsertedInPlace(before, after, l, days, cw) ==
    /\ UpsertDone(l)
    /\ NoDuplicateRows(after)
    /\ Len(l.submitted) = 7
    /\ \A i \in 1..7 :
          /\ Cardinality(RowsOf(after, l.user, days[i])) = 1
          /\ \A r \in RowsOf(after, l.user, days[i]) :
                /\ r.location = Norm(l.submitted[i])
                /\ r.year = l.year
                /\ r.week = cw
                /\ \A r0 \in RowsOf(before, l.user, days[i]) : r0.id = r.id
    /\ l.updated = Cardinality({ i \in 1..7 : RowsOf(before, l.user, days[i]) # {} })

\* C3: handled one after another, every upsert leaves at most one row per
\* (user_id, date); a pair that already has a row keeps that row (same id),
\* and the row carries the location, year and week of the latest upsert.
C3_UpsertInPlace ==
    [][ (nops' = nops + 1 /\ IsUpsertRoute(last') /\ CalendarOk(last')) =>
            \A days \in {DaysOf(last')}, cw \in {ClampedWeek(last')} :
                UpsertedInPlace(db, db', last', days, cw)
      ]_vars

C3_Witness ==
    /\ UpsertDone(last) /\ nops = 2 /\ last.updated = 7
    /\ Cardinality(db) = 7
    /\ \E r \in db : r.user_id = last.user /\ r.location = "Customer"

\* the year or week field of the request is missing, is no integer, or
\* names no year of the calendar
InvalidCalendar(l) ==
    \/ ParseInt(l.f_year).exc # "none"
    \/ ParseInt(l.f_week).exc # "none"
    \/ ~ValidYear(ParseInt(l.f_year).value)

\* C4: a POST /save or /download whose year or week is missing or invalid
\* ends in the 400 response with the fixed message and writes no row.
C4_InvalidCalendarIs400 ==
    [][ (nops' = nops + 1 /\ IsUpsertRoute(last') /\ InvalidCalendar(last')) =>
            /\ last'.status = 400
            /\ last'.body = BadCalendar
            /\ db' = db
      ]_vars

\* C5: every row holds one of the three locations or the empty string; an
\* upsert stores the text read for a day when it is one of the three and
\* the empty string otherwise, and does not reject the request.
C5_LocationsNormalized ==
    /\ \A r \in db : r.location \in AllowedLocations
    /\ (IsUpsertRoute(last) /\ CalendarOk(last)) =>
          /\ UpsertDone(last)
          /\ Len(last.submitted) = 7
          /\ \A i \in 1..7 :
                /\ RowsOf(db, last.user, DaysOf(last)[i]) # {}
                /\ \A r \in RowsOf(db, last.user, DaysOf(last)[i]) :
                      r.location = Norm(last.submitted[i])

C5_Witness ==
    /\ UpsertDone(last)
    /\ \E i \in 1..7, j \in 1..7 :
          /\ last.submitted[i] = "Remote"
          /\ last.submitted[j] = "Homeoffice"
          /\ \E r \in RowsOf(db, last.user, DaysOf(last)[i]) : r.location = ""
          /\ \E r \in RowsOf(db, last.user, DaysOf(last)[j]) :
                r.location = "Homeoffice"

\* C6: a POST /download with a valid year and week exports, Monday to
\* Sunday of the clamped week, the normalized locations submitted in that
\* request, and the table holds the same values afterwards.
C6_DownloadExportsSubmitted ==
    (last.route = "download" /\ CalendarOk(last)) =>
        /\ last.status = 200
        /\ Len(last.export) = 7
        /\ Len(last.submitted) = 7
        /\ \A i \in 1..7 :
              /\ weekday(DaysOf(last)[i]) = i - 1
              /\ last.export[i].Datum = isoformat(DaysOf(last)[i])
              /\ last.export[i].Jahr = last.year
              /\ last.export[i].Kalenderwoche = ClampedWeek(last)
              /\ last.export[i].Standort = Norm(last.submitted[i])
              /\ RowsOf(db, last.user, DaysOf(last)[i]) # {}
              /\ \A r \in RowsOf(db, last.user, DaysOf(last)[i]) :
                    r.location = last.export[i].Standort

C6_Witness ==
    /\ last.route = "download" /\ last.status = 200
    /\ last.updated = 7 /\ last.week = 60
    /\ last.export[1].Standort = "Homeoffice"
    /\ last.export[1].Kalenderwoche = 53

\* C8: the ISO year and ISO week of every row's date are the row's year and
\* week; the rows an upsert wrote carry the requested year and the clamped
\* week.
C8_RowsSelfConsistent ==
    /\ \A r \in db :
          /\ isocalendar(r.date).year = r.year
          /\ isocalendar(r.date).week = r.week
    /\ UpsertDone(last) =>
          \A i \in 1..7 :
              \A r \in RowsOf(db, last.user, DaysOf(last)[i]) :
                  r.year = last.year /\ r.week = ClampedWeek(last)

C8_Witness ==
    /\ UpsertDone(last) /\ last.week = 60 /\ last.updated = 7
    /\ \E r \in db : /\ r.user_id = last.user
                     /\ r.week = 53 /\ r.year = 2020 /\ r.date.year = 2021

InWeek(d, days) == \E i \in 1..Len(days) : days[i] = d
\* the days a request may write: those of its week if its upsert ran
TargetDays(l) == IF UpsertDone(l) THEN DaysOf(l) ELSE <<>>

\* what one request of user l.user for the days `days` may do to the table
FrameKept(before, after, l, days) ==
    /\ \A r \in before :
          \/ r \in after
          \/ /\ r.user_id = l.user
             /\ InWeek(r.date, days)
             /\ \E q \in after : q.id = r.id /\ q.user_id = r.user_id
                                 /\ q.date = r.date
    /\ \A q \in after \ before : q.user_id = l.user /\ InWeek(q.date, days)
    /\ UpsertDone(l) =>
          \A i \in 1..7 :
              \E q \in after :
                  /\ q.user_id = l.user
                  /\ q.date = days[i]
                  /\ l.submitted[i] = "" => q.location = ""

\* C9: an upsert changes only rows of its user within the seven days of the
\* clamped week, deletes no row, and writes all seven days: a day whose
\* field is absent gets the empty string.
C9_FrameOfUpsert ==
    [][ nops' = nops + 1 =>
            IF db' = db /\ ~UpsertDone(last') THEN TRUE
            ELSE \A days \in {TargetDays(last')} : FrameKept(db, db', last', days)
      ]_vars

C9_Witness ==
    /\ UpsertDone(last) /\ last.updated = 0
    /\ \E i \in 1..7 : last.submitted[i] = ""
    /\ \E r \in db : r.user_id # last.user /\ r.location = "Customer"
    /\ \E r \in db : r.user_id = last.user /\ r.location = "Homeoffice"

(***************************************************************************)
(* Properties of interleaved sessions (SpecTx).                            *)
(***************************************************************************)
\* the session is about to INSERT a (user_id, date) the table already holds
Conflicts(rows, sess) ==
    \E r \in sess.ins, q \in rows :
        r.user_id = q.user_id /\ r.date = q.date /\ r.id # q.id

Committing(t) == tx[t].pc = "loop" /\ tx'[t].pc \in {"committed", "failed"}

\* C7: with the statements of two sessions interleaved, the committed table
\* never holds two rows for one (user_id, date); a session that added a day
\* the other has committed meanwhile fails at its commit, and a failed
\* commit leaves the table as it was.
C7_UniqueUnderInterleaving ==
    [][ /\ NoDuplicateRows(db')
        /\ \A t \in Txns :
              Committing(t) =>
                  /\ Conflicts(db, tx[t].sess) <=> tx'[t].pc = "failed"
                  /\ tx'[t].pc = "failed" => db' = db
                  /\ tx'[t].pc = "committed" =>
                        \A i \in 1..7 :
                            RowsOf(db', tx[t].user_id, tx[t].days[i]) # {}
      ]_vars

C7_Witness ==
    \E t \in Txns, o \in Txns :
        /\ t # o
        /\ tx[t].pc = "committed" /\ tx[t].raced
        /\ tx[o].pc = "failed"
        /\ tx[t].user_id = tx[o].user_id
        /\ tx[t].year = tx[o].year /\ tx[t].week_norm = tx[o].week_norm
        /\ tx[t].payload # tx[o].payload
        /\ Cardinality(db) = 7
        /\ \A r \in db : r \in tx[t].sess.ins

====
